---- MODULE Spec2Model ----
(***************************************************************************)
(* Model of data_process.py: the script binds the 14 column names, loads   *)
(* a header-less CSV file with pandas.read_csv(path, header=None,          *)
(* names=column_names) into the module-level variable `data`, prints       *)
(* data.head() and prints data.info().                                     *)
(*                                                                         *)
(* A file is a sequence of lines; a line is the sequence of its field      *)
(* tokens (strings), and the empty sequence is a blank line.  A cell of    *)
(* the loaded table is a tagged value [t |-> tag, v |-> value].            *)
(***************************************************************************)
EXTENDS Integers, Sequences, FiniteSets, TLC

(***************************************************************************)
(* Bounds of the model.                                                    *)
(***************************************************************************)
\* longest file whose lines are drawn from the full set of line shapes
MaxRows == 2
\* longest file of well-formed lines (longer than the preview)
MaxLongRows == 6
\* how many times the script is executed on the same file
MaxRuns == 2

(***************************************************************************)
(* data_process.py:3-7                                                     *)
(***************************************************************************)
column_names ==
    << "id", "label", "statement", "subject", "speaker", "job_title",
       "state_info", "party_affiliation", "barely_true_counts", "false_counts",
       "half_true_counts", "mostly_true_counts", "pants_on_fire_counts",
       "context" >>

ColSet == { column_names[j] : j \in 1..Len(column_names) }

\* position of a column name in column_names
ColPos(c) == CHOOSE j \in 1..Len(column_names) : column_names[j] = c

\* the five counter columns of the schema
CounterCols ==
    { "barely_true_counts", "false_counts", "half_true_counts",
      "mostly_true_counts", "pants_on_fire_counts" }

\* data.head() is called without argument: n defaults to 5
DefaultHeadN == 5

(***************************************************************************)
(* read_csv: parsing of tokens (defaults of pandas.read_csv: na_filter,    *)
(* true/false values, type inference int64 -> float64 -> bool -> object).  *)
(***************************************************************************)
NAValues ==
    { "", "NA", "N/A", "n/a", "NULL", "null", "NaN", "nan", "#N/A", "<NA>",
      "None" }

TrueValues == { "True", "TRUE", "true" }
FalseValues == { "False", "FALSE", "false" }

\* the integer literals among the tokens of the model
IntTokens == { "0", "1", "2", "-3" }

IntValue(tok) ==
    CASE tok = "0" -> 0
      [] tok = "1" -> 1
      [] tok = "2" -> 2
      [] tok = "-3" -> 0 - 3

NaN == [t |-> "nan", v |-> 0]
IntCell(n) == [t |-> "int", v |-> n]
FloatCell(n) == [t |-> "float", v |-> n]
BoolCell(b) == [t |-> "bool", v |-> b]
StrCell(s) == [t |-> "str", v |-> s]

\* the kind of a column, inferred from all its tokens
InferKind(toks) ==
    LET S == { toks[i] : i \in 1..Len(toks) } IN
    IF Len(toks) = 0 THEN "object"
    ELSE IF S \subseteq IntTokens THEN "int64"
    ELSE IF S \subseteq (IntTokens \cup NAValues) THEN "float64"
    ELSE IF S \subseteq (TrueValues \cup FalseValues) THEN "bool"
    ELSE IF S \subseteq (TrueValues \cup FalseValues \cup NAValues)
         THEN "object_bool"
    ELSE "object"

\* the dtype pandas reports for a column of that kind
KindDtype(kind) == IF kind = "object_bool" THEN "object" ELSE kind

\* the cell a token becomes in a column of the given kind
ConvertCell(kind, tok) ==
    CASE kind = "int64" -> IntCell(IntValue(tok))
      [] kind = "float64" ->
            IF tok \in NAValues THEN NaN ELSE FloatCell(IntValue(tok))
      [] kind = "bool" -> BoolCell(tok \in TrueValues)
      [] kind = "object_bool" ->
            IF tok \in NAValues THEN NaN ELSE BoolCell(tok \in TrueValues)
      [] OTHER -> IF tok \in NAValues THEN NaN ELSE StrCell(tok)

(***************************************************************************)
(* read_csv: tokenizing and shaping (header=None, names=column_names).     *)
(***************************************************************************)
\* mutant: header=None forgotten, the first line is taken as the header row
Lines_header(f) ==
    LET lines == SelectSeq(f, LAMBDA ln : Len(ln) > 0) IN
    IF Len(lines) = 0 THEN lines ELSE SubSeq(lines, 2, Len(lines))

\* skip_blank_lines: the lines of the file that are not blank
Lines(f) == SelectSeq(f, LAMBDA ln : Len(ln) > 0)

Max(a, b) == IF a >= b THEN a ELSE b
Min(a, b) == IF a <= b THEN a ELSE b

\* the number of fields every line is expected to have: the names, or the
\* first line when it is longer than the names
ExpectedFields(lines) ==
    IF Len(lines) = 0 THEN Len(column_names)
    ELSE Max(Len(lines[1]), Len(column_names))

\* a line after the first with more fields than expected cannot be tokenized
TooManyFields(lines) ==
    \E k \in 2..Len(lines) : Len(lines[k]) > ExpectedFields(lines)

\* missing trailing fields are filled with empty tokens
Pad(ln, w) == [j \in 1..w |-> IF j <= Len(ln) THEN ln[j] ELSE ""]

\* the tokens of field position p over all lines
ColumnTokens(lines, p) ==
    [k \in 1..Len(lines) |-> Pad(lines[k], ExpectedFields(lines))[p]]

\* the table read_csv builds from the lines of a readable file: fields beyond
\* the 14 names are leading index columns; without them the index is 0..n-1
BuildFrame(lines) ==
    LET w == ExpectedFields(lines)
        lead == w - Len(column_names)
        kind == [p \in 1..w |-> InferKind(ColumnTokens(lines, p))]
        cell(k, p) == ConvertCell(kind[p], Pad(lines[k], w)[p])
    IN [bound |-> TRUE,
        index |-> [k \in 1..Len(lines) |->
                     IF lead = 0 THEN << IntCell(k - 1) >>
                     ELSE [p \in 1..lead |-> cell(k, p)]],
        rows |-> [k \in 1..Len(lines) |->
                     [c \in ColSet |-> cell(k, lead + ColPos(c))]],
        dtypes |-> [c \in ColSet |-> KindDtype(kind[lead + ColPos(c)])]]

\* the name `data` before line 10 has run
Unbound ==
    [bound |-> FALSE, index |-> << >>, rows |-> << >>,
     dtypes |-> [c \in ColSet |-> "object"]]

\* mutant: a file without lines raises EmptyDataError, as it does when no
\* names are passed
read_csv_empty_raises(readable, f) ==
    IF ~readable THEN [err |-> "FileNotFoundError", df |-> Unbound]
    ELSE IF Lines(f) = << >> THEN [err |-> "EmptyDataError", df |-> Unbound]
    ELSE IF TooManyFields(Lines(f)) THEN [err |-> "ParserError", df |-> Unbound]
    ELSE [err |-> "none", df |-> BuildFrame(Lines(f))]

\* data_process.py:10
read_csv(readable, f) ==
    IF ~readable THEN [err |-> "FileNotFoundError", df |-> Unbound]
    ELSE IF TooManyFields(Lines(f)) THEN [err |-> "ParserError", df |-> Unbound]
    ELSE [err |-> "none", df |-> BuildFrame(Lines(f))]

\* read_csv returns the table alone: the code keeps no list of rejected rows
RejectedRows == << >>

(***************************************************************************)
(* data.head(n) and data.info()                                            *)
(***************************************************************************)
\* mutant: the slice ends one record early
head_short(df, n) ==
    [index |-> SubSeq(df.index, 1, Min(n - 1, Len(df.rows))),
     rows |-> SubSeq(df.rows, 1, Min(n - 1, Len(df.rows)))]

head(df, n) ==
    [index |-> SubSeq(df.index, 1, Min(n, Len(df.rows))),
     rows |-> SubSeq(df.rows, 1, Min(n, Len(df.rows)))]

info(df) ==
    [entries |-> Len(df.rows),
     columns |-> [c \in ColSet |->
        [dtype |-> df.dtypes[c],
         non_null |-> Cardinality({ k \in 1..Len(df.rows) :
                                      df.rows[k][c].t # "nan" })]]]

(***************************************************************************)
(* The input files of the model.                                           *)
(***************************************************************************)
Ids == { "1", "2" }

\* a well-formed line: 14 fields, all counters "0"
BaseRow(id, label) ==
    << id, label, "Taxes were cut.", "taxes", "a-speaker", "governor",
       "Texas", "republican", "0", "0", "0", "0", "0", "a speech" >>

CounterPositions == { ColPos(c) : c \in CounterCols }

GoodRows == { BaseRow(i, l) : i \in Ids, l \in { "true", "half-true" } }
BadLabelRows == { BaseRow(i, "bogus") : i \in Ids }
BadCounterRows ==
    { [BaseRow("1", "true") EXCEPT ![p] = tok] :
        p \in CounterPositions, tok \in { "-3", "abc" } }
ShortRows ==
    { SubSeq(BaseRow(i, "true"), 1, Len(column_names) - 1) : i \in Ids }
LongRows == { Append(BaseRow(i, "true"), "extra") : i \in Ids }
BlankLine == << >>

RowShapes ==
    GoodRows \cup BadLabelRows \cup BadCounterRows \cup ShortRows
        \cup LongRows \cup { BlankLine }

LongRowShapes == { BaseRow("1", "true"), BaseRow("2", "half-true") }

Files ==
    UNION { [1..n -> RowShapes] : n \in 0..MaxRows }
        \cup UNION { [1..n -> LongRowShapes] : n \in (MaxRows + 1)..MaxLongRows }

(***************************************************************************)
(* State of one execution of the script, and of the file it reads.         *)
(***************************************************************************)
VARIABLES
    path_exists,  \* the hard-coded path resolves to a readable file
    file,         \* the lines of that file
    pc,           \* the statement the script is at
    data,         \* the module-level name `data`
    err,          \* the exception that ended the script, or "none"
    preview,      \* what line 13 printed: << >> or << data.head() >>
    summary,      \* what line 14 printed: << >> or << data.info() >>
    runs,         \* executions of the script started so far
    prev          \* outcome of the previous execution: << >> or << [err, data] >>

vars == << path_exists, file, pc, data, err, preview, summary, runs, prev >>

Init ==
    /\ \/ path_exists = TRUE /\ file \in Files
       \/ path_exists = FALSE /\ file = << >>
    /\ pc = "load"
    /\ data = Unbound
    /\ err = "none"
    /\ preview = << >>
    /\ summary = << >>
    /\ runs = 1
    /\ prev = << >>

\* mutant: the exception of read_csv is caught and the script goes on with an
\* empty table
Load_caught ==
    /\ pc = "load"
    /\ LET r == read_csv(path_exists, file) IN
         /\ data' = IF r.err = "none" THEN r.df ELSE BuildFrame(<< >>)
         /\ err' = r.err
         /\ pc' = "head"
    /\ UNCHANGED << path_exists, file, preview, summary, runs, prev >>

\* data_process.py:10 : an exception of read_csv is not caught and ends the
\* script with `data` unbound
Load ==
    /\ pc = "load"
    /\ LET r == read_csv(path_exists, file) IN
         IF r.err = "none"
         THEN /\ data' = r.df
              /\ err' = err
              /\ pc' = "head"
         ELSE /\ data' = data
              /\ err' = r.err
              /\ pc' = "aborted"
    /\ UNCHANGED << path_exists, file, preview, summary, runs, prev >>

\* data_process.py:13
PrintHead ==
    /\ pc = "head"
    /\ preview' = << head(data, DefaultHeadN) >>
    /\ pc' = "info"
    /\ UNCHANGED << path_exists, file, data, err, summary, runs, prev >>

\* mutant: the save step of lines 27-28 is active and writes the table, with
\* its header row, over the input file
PrintInfo_saves ==
    /\ pc = "info"
    /\ summary' = << info(data) >>
    /\ pc' = "done"
    /\ file' = << column_names >> \o file
    /\ UNCHANGED << path_exists, data, err, preview, runs, prev >>

\* data_process.py:14 (lines 16-28 are imports and comments)
PrintInfo ==
    /\ pc = "info"
    /\ summary' = << info(data) >>
    /\ pc' = "done"
    /\ UNCHANGED << path_exists, file, data, err, preview, runs, prev >>

\* the script is executed again: a new process, nothing kept but the file
Rerun ==
    /\ pc \in { "done", "aborted" }
    /\ runs < MaxRuns
    /\ prev' = << [err |-> err, data |-> data] >>
    /\ runs' = runs + 1
    /\ pc' = "load"
    /\ data' = Unbound
    /\ err' = "none"
    /\ preview' = << >>
    /\ summary' = << >>
    /\ UNCHANGED << path_exists, file >>

Next == Load \/ PrintHead \/ PrintInfo \/ Rerun

Spec == Init /\ [][Next]_vars

(***************************************************************************)
(* Vocabulary of the properties.                                           *)
(***************************************************************************)
\* the script got past line 10: `data` is bound to a table
Loaded == pc \in { "head", "info", "done" }

\* every line of the file has exactly as many fields as the schema has names
AllWellFormed == \A k \in 1..Len(file) : Len(file[k]) = 14

\* the labels of the fact-checking corpus
AcceptedLabels ==
    { "true", "mostly-true", "half-true", "barely-true", "false", "pants-fire" }

\* a cell holds the value the token spells
Represents(cell, tok) ==
    CASE cell.t = "nan" -> tok \in NAValues
      [] cell.t \in { "int", "float" } ->
            tok \in IntTokens /\ IntValue(tok) = cell.v
      [] cell.t = "bool" ->
            /\ tok \in TrueValues \cup FalseValues
            /\ cell.v = (tok \in TrueValues)
      [] OTHER -> cell.v = tok

\* a cell holds a label of the accepted set
AcceptedLabelCell(cell) ==
    \/ cell.t = "bool"
    \/ cell.t = "str" /\ cell.v \in AcceptedLabels

\* a token spells a non-negative integer
NonNegIntToken(tok) == tok \in IntTokens /\ IntValue(tok) >= 0

\* a 14-field line one of whose five counter fields is negative or non-numeric
BadCounterLine(ln) == \E p \in CounterPositions : ~NonNegIntToken(ln[p])

\* a 14-field line whose label is outside the accepted set
BadLabelLine(ln) == ln[ColPos("label")] \notin AcceptedLabels

\* how many lines of the file fail the validation of the counters, of the label
BadCounterCount == Cardinality({ k \in 1..Len(file) : BadCounterLine(file[k]) })
BadLabelCount == Cardinality({ k \in 1..Len(file) : BadLabelLine(file[k]) })

(***************************************************************************)
(* C1: whenever some line of the (readable) file has a field count other   *)
(* than 14, fewer or more, the load fails and binds no table.              *)
(***************************************************************************)
C1_MismatchAborts ==
    ( /\ path_exists
      /\ pc # "load"
      /\ \E k \in 1..Len(Lines(file)) : Len(Lines(file)[k]) # 14 )
    => (pc = "aborted" /\ err # "none" /\ ~data.bound)

(***************************************************************************)
(* C2: after a load of a file of 14-field lines, every line with a         *)
(* negative or non-numeric counter is in the rejected rows and not in the  *)
(* table, so every record of the table has five non-negative integer       *)
(* counters.                                                               *)
(***************************************************************************)
C2_BadCountersRejected ==
    (Loaded /\ AllWellFormed)
    => /\ Len(RejectedRows) = BadCounterCount
       /\ \A k \in 1..Len(data.rows) : \A c \in CounterCols :
             data.rows[k][c].t = "int" /\ data.rows[k][c].v >= 0

(***************************************************************************)
(* C3: after a successful load the id values of the records of the table   *)
(* are pairwise distinct.                                                  *)
(***************************************************************************)
C3_IdsDistinct ==
    Loaded
    => \A i, j \in 1..Len(data.rows) :
          i # j => data.rows[i]["id"] # data.rows[j]["id"]

(***************************************************************************)
(* C4: the schema has exactly 14 names, and after a load the first line of *)
(* the file is the first record and the i-th field of every line is the    *)
(* value of the i-th schema name in that line's record.                    *)
(***************************************************************************)
C4_PositionalAssignment ==
    /\ Len(column_names) = 14
    /\ Loaded
       => /\ Len(data.rows) = Len(Lines(file))
          /\ \A k \in 1..Len(data.rows) :
                \A j \in 1..Min(14, Len(Lines(file)[k])) :
                   Represents(data.rows[k][column_names[j]], Lines(file)[k][j])

(***************************************************************************)
(* C5: loading an empty file and summarizing it raises no error, and the   *)
(* summary has zero rows.                                                  *)
(***************************************************************************)
C5_EmptyFileSummary ==
    (path_exists /\ Lines(file) = << >> /\ pc # "load")
    => /\ Loaded
       /\ err = "none"
       /\ Len(data.rows) = 0
       /\ pc = "done" => (summary # << >> /\ summary[1].entries = 0)

C5_Witness ==
    /\ path_exists
    /\ file = << >>
    /\ pc = "done"
    /\ summary # << >>

(***************************************************************************)
(* C6: when the path is not a readable file the load fails with            *)
(* FileNotFoundError, no table is bound, and neither the preview nor the   *)
(* summary is produced.                                                    *)
(***************************************************************************)
C6_MissingFileAborts ==
    (~path_exists /\ pc # "load")
    => /\ pc = "aborted"
       /\ err = "FileNotFoundError"
       /\ ~data.bound
       /\ preview = << >>
       /\ summary = << >>

C6_Witness == ~path_exists /\ pc = "aborted" /\ err = "FileNotFoundError"

C8_BadLabelsRejected ==
    (path_exists /\ AllWellFormed /\ pc # "load")
    => /\ Loaded
       /\ Len(RejectedRows) = BadLabelCount
       /\ \A k \in 1..Len(data.rows) : AcceptedLabelCell(data.rows[k]["label"])

(***************************************************************************)
(* C9: once loaded the table never changes (the preview and the summary    *)
(* only read it), and the preview is exactly the first min(5, length)      *)
(* records of the table, in order.                                         *)
(***************************************************************************)
C9_PreviewReadsOnly ==
    /\ [](preview # << >>
            => /\ Loaded
               /\ preview[1].rows = SubSeq(data.rows, 1, Min(5, Len(data.rows)))
               /\ preview[1].index = SubSeq(data.index, 1, Min(5, Len(data.rows))))
    /\ [][(Loaded /\ Loaded') => data' = data]_vars

C9_Witness ==
    /\ pc = "done"
    /\ Len(data.rows) > 5
    /\ Len(preview[1].rows) = 5
    /\ preview[1].rows[5] = data.rows[5]

(***************************************************************************)
(* C10: for a file whose lines all have 14 fields the load succeeds and    *)
(* every line is in exactly one of the table and the rejected rows: the    *)
(* two lengths add up to the number of lines, and the k-th record of the   *)
(* table holds the fields of the k-th line that was not rejected.          *)
(***************************************************************************)
C10_RowsPartitioned ==
    (path_exists /\ AllWellFormed /\ pc # "load")
    => /\ Loaded
       /\ Len(data.rows) + Len(RejectedRows) = Len(file)
       /\ \A k \in 1..Len(data.rows) : \A j \in 1..14 :
             Represents(data.rows[k][column_names[j]], file[k][j])

C10_Witness ==
    /\ pc = "done"
    /\ AllWellFormed
    /\ Len(file) >= 2
    /\ file[1] # file[2]
    /\ Len(data.rows) = Len(file)

====
